---- MODULE Spec2Model ----
(***************************************************************************)
(* DS2438New: the emulated DS2438 battery monitor of MQ135As1W.            *)
(* State: the 64 register bytes, the per-page checksums and the two        *)
(* staged voltage pairs.  Operations: the bus dispatcher duty() and the    *)
(* public setters, getters and memory accessors.                           *)
(***************************************************************************)
EXTENDS Integers, Sequences, FiniteSets, TLC

(* ---------------------------------------------------------------------- *)
(* Program constants (DS2438New.h)                                         *)
(* ---------------------------------------------------------------------- *)
PAGE_COUNT == 8
PAGE_SIZE == 8
MEM_SIZE == PAGE_COUNT * PAGE_SIZE

REG0_MASK_IAD == 1
REG0_MASK_CA == 2
REG0_MASK_EE == 4
REG0_MASK_AD == 8
REG0_MASK_TB == 16
REG0_MASK_NVB == 32
REG0_MASK_ADB == 64

\* command bytes of duty(): 0xBE 0x4E 0x48 0xB8 0x44 0xB4
CMD_READ_SCRATCHPAD == 190
CMD_WRITE_SCRATCHPAD == 78
CMD_COPY_SCRATCHPAD == 72
CMD_RECALL_MEMORY == 184
CMD_CONVERT_T == 68
CMD_CONVERT_V == 180

\* constexpr uint8_t MemDS2438[64]
MemDS2438Rows ==
    <<  9,  32,  20, 172,   0,  64,   1,   0,
      236, 171,  35,  88, 255,   8,   0, 252,
        0,   0,   0,   0, 109, 131,   3,   2,
        0,   0,   0,   0,   0,   0,   0,   0,
        0,   0,   0,   0,   0,   0,   0,   0,
        0,   0,   0,   0,   0,   0,   0,   0,
        0,   0,   0,   0,   0,   0,   0,   0,
        0,   0,   0,   0,   0,   0,   0,   0 >>

MemDS2438 == [i \in 0..(MEM_SIZE - 1) |-> MemDS2438Rows[i + 1]]

(* ---------------------------------------------------------------------- *)
(* Fixed-width integer arithmetic                                          *)
(* ---------------------------------------------------------------------- *)
RECURSIVE BitAnd(_, _)
BitAnd(a, b) ==
    IF a = 0 \/ b = 0 THEN 0
    ELSE (a % 2) * (b % 2) + 2 * BitAnd(a \div 2, b \div 2)

RECURSIVE BitOr(_, _)
BitOr(a, b) ==
    IF a = 0 THEN b
    ELSE IF b = 0 THEN a
    ELSE (IF a % 2 = 1 \/ b % 2 = 1 THEN 1 ELSE 0) + 2 * BitOr(a \div 2, b \div 2)

RECURSIVE BitXor(_, _)
BitXor(a, b) ==
    IF a = 0 THEN b
    ELSE IF b = 0 THEN a
    ELSE ((a + b) % 2) + 2 * BitXor(a \div 2, b \div 2)

\* ~m on a uint8_t operand, as used in  memory[0] &= ~MASK
BitNot8(m) == 255 - m

\* conversion to uint8_t / uint16_t / int16_t (two's complement)
U8(x) == x % 256
U16(x) == x % 65536
S8(x) == IF U8(x) >= 128 THEN U8(x) - 256 ELSE U8(x)
S16(x) == IF U16(x) >= 32768 THEN U16(x) - 65536 ELSE U16(x)

(* ---------------------------------------------------------------------- *)
(* crc8 of OneWireItem: Dallas/Maxim CRC-8, reflected polynomial 0x8C,     *)
(* initial value 0, over the bytes mem[first .. first+n-1]                 *)
(* ---------------------------------------------------------------------- *)
RECURSIVE Crc8Bits(_, _, _)
Crc8Bits(c, inByte, n) ==
    IF n = 0 THEN c
    ELSE LET mix == (c + inByte) % 2
             sh  == c \div 2
         IN  Crc8Bits(IF mix # 0 THEN BitXor(sh, 140) ELSE sh, inByte \div 2, n - 1)

\* the loop body for every byte entering an empty register, tabulated
Crc8Table == [x \in 0..255 |-> Crc8Bits(0, x, 8)]

\* one byte b entering the register c: Crc8Bits(c, b, 8), which for this
\* polynomial equals the table entry of c ^ b
Crc8Update(c, b) == Crc8Table[BitXor(c, b)]

\* the checksum register after the bytes mem[first .. first+n-1]
RECURSIVE Crc8From(_, _, _, _)
Crc8From(c, mem, first, n) ==
    IF n = 0 THEN c
    ELSE Crc8Update(Crc8From(c, mem, first, n - 1), mem[first + n - 1])

crc8(mem, first, n) == Crc8From(0, mem, first, n)

(* ---------------------------------------------------------------------- *)
(* State                                                                   *)
(* ---------------------------------------------------------------------- *)
VARIABLES
    memory,      \* uint8_t memory[MEM_SIZE], indexed 0..63
    crc,         \* uint8_t crc[PAGE_COUNT+1], indexed 0..8
    vadVoltage,  \* uint8_t vadVoltage[2], indexed 0..1
    vddVoltage,  \* uint8_t vddVoltage[2], indexed 0..1
    last,        \* what the most recent operation did on its interfaces
    nops,        \* number of operations performed so far
    arg          \* the value under test in the encoder specifications

\* the sketch that owns the device (MQ135As1W.ino, moving-average version)
VARIABLES
    eeprom,      \* EEPROM cells 0..6: the sentinel and the six address bytes
    addr,        \* uint8_t addr[7], indexed 0..6
    ID,          \* the address the device object was constructed with
    ma_total,    \* int ma_total
    ma_output,   \* int ma_output
    ma_init,     \* int ma_init, as a boolean
    pc,          \* where the sketch is: "reset", "generate", "loop"; "none" without a sketch
    slot,        \* the loop index i of the address generation in setup()
    boots,       \* number of power cycles so far
    reads,       \* number of loop() iterations since the last reset
    mq135,       \* int mq135, the reading of the latest loop() iteration
    written      \* for each EEPROM cell the power-up that last wrote it, -1 if none did

sketch == <<eeprom, addr, ID, ma_total, ma_output, ma_init, pc, slot, boots, reads, mq135, written>>

vars == <<memory, crc, vadVoltage, vddVoltage, last, nops, arg, sketch>>

\* the record kept in last: the operation, its arguments, the bytes the
\* transport delivered (rxd) and put on the bus (sent), the outcome of each
\* transport call in order (calls), the codes passed to raiseSlaveError
\* (errs), the return value (ret) and the bytes copied out (out)
Obs(op, args, rxd, sent, calls, errs, ret, out) ==
    [op |-> op, args |-> args, rxd |-> rxd, sent |-> sent, calls |-> calls,
     errs |-> errs, ret |-> ret, out |-> out]

(* ---------------------------------------------------------------------- *)
(* DS2438New private helpers                                               *)
(* ---------------------------------------------------------------------- *)
\* void calcCRC(page): crc[page] = crc8(&memory[page * 8], 8) if page < PAGE_COUNT
CalcCRC(mem, c, page) ==
    IF page < PAGE_COUNT
    THEN [c EXCEPT ![page] = crc8(mem, page * 8, 8)]
    ELSE c

\* for (page = from; page <= to; ++page) calcCRC(page)
RECURSIVE CalcCRCRange(_, _, _, _)
CalcCRCRange(mem, c, from, to) ==
    IF from > to THEN c
    ELSE CalcCRCRange(mem, CalcCRC(mem, c, from), from + 1, to)

\* updateVoltage with the two channels exchanged
UpdateVoltageSwapped(mem, vad, vdd, page) ==
    LET isVDD == BitAnd(mem[page * 8], REG0_MASK_AD)
    IN  [mem EXCEPT ![page * 8 + 3] = IF isVDD # 0 THEN vad[0] ELSE vdd[0],
                    ![page * 8 + 4] = IF isVDD # 0 THEN vad[1] ELSE vdd[1]]

\* void updateVoltage(page)
UpdateVoltage(mem, vad, vdd, page) ==
    LET isVDD == BitAnd(mem[page * 8], REG0_MASK_AD)
    IN  [mem EXCEPT ![page * 8 + 3] = IF isVDD # 0 THEN vdd[0] ELSE vad[0],
                    ![page * 8 + 4] = IF isVDD # 0 THEN vdd[1] ELSE vad[1]]

\* the flag updates without  memory[0] &= ~REG0_MASK_AD
ClearConfigKeepsAD(b) ==
    LET b1 == BitOr(b, REG0_MASK_IAD)
        b2 == BitOr(b1, REG0_MASK_CA)
        b4 == BitAnd(b2, BitNot8(REG0_MASK_TB))
        b5 == BitAnd(b4, BitNot8(REG0_MASK_NVB))
    IN  BitAnd(b5, BitNot8(REG0_MASK_ADB))

\* the configuration byte after the six flag updates of clearMemory()
ClearConfig(b) ==
    LET b1 == BitOr(b, REG0_MASK_IAD)
        b2 == BitOr(b1, REG0_MASK_CA)
        b3 == BitAnd(b2, BitNot8(REG0_MASK_AD))
        b4 == BitAnd(b3, BitNot8(REG0_MASK_TB))
        b5 == BitAnd(b4, BitNot8(REG0_MASK_NVB))
    IN  BitAnd(b5, BitNot8(REG0_MASK_ADB))

\* memory after clearMemory(): the template with the configuration flags applied
ClearedMemory == [MemDS2438 EXCEPT ![0] = ClearConfig(MemDS2438[0])]

\* crc after clearMemory(): every page recomputed, crc[PAGE_COUNT] untouched
ClearedCrc(c) == CalcCRCRange(ClearedMemory, c, 0, PAGE_COUNT - 1)

(* ---------------------------------------------------------------------- *)
(* duty(): one bus transaction.  The transport is given by rx, the bytes   *)
(* the master delivers before recv() starts failing, and txOk, the number  *)
(* of bytes send() puts on the bus before it starts failing.               *)
(* ---------------------------------------------------------------------- *)
DutyOut(mem, c, rxd, sent, calls, errs) ==
    [memory |-> mem, crc |-> c, rxd |-> rxd, sent |-> sent, calls |-> calls, errs |-> errs]

\* if (hub->recv(&page)) return;   the receive of the page index failed
PageRecvFailed(mem, c, cmd) ==
    DutyOut(mem, c, <<cmd>>, <<>>, <<"recv_ok", "recv_fail">>, <<>>)

\* the test  page >= PAGE_COUNT  of the four page commands
PageRejected(page) == page >= PAGE_COUNT

\* a rejected page index reported to the master like an unknown command
PageAbortSignalled(mem, c, cmd, page) ==
    DutyOut(mem, c, <<cmd, page>>, <<>>, <<"recv_ok", "recv_ok">>, <<cmd>>)

\* if (page >= PAGE_COUNT) return;   the transaction ends there
PageAbort(mem, c, cmd, page) ==
    DutyOut(mem, c, <<cmd, page>>, <<>>, <<"recv_ok", "recv_ok">>, <<>>)

\* the read-only test with its lower limit off by one
ReadOnlyFromByte2(nByte) == (nByte < 7) /\ (nByte > 1)

\* the read-only test with its upper limit off by one
ReadOnlyThroughByte7(nByte) == (nByte <= 7) /\ (nByte > 0)

\* Bytes 1-6 are read only:  if ((nByte < 7) && (nByte > 0)) continue;
ReadOnly(nByte) == (nByte < 7) /\ (nByte > 0)

\* the bytes memory[first .. first+n-1] in order
PageBytes(mem, first, n) == [i \in 1..n |-> mem[first + i - 1]]

\* Read Page that answers with the checksum slot of page 0 whatever the page
ReadScratchpadCrcOfPage0(mem, c, page, txOk) ==
    IF txOk < 8
    THEN DutyOut(mem, c, <<CMD_READ_SCRATCHPAD, page>>,
                 SubSeq(PageBytes(mem, page * 8, 8), 1, txOk),
                 <<"recv_ok", "recv_ok", "send_fail">>, <<>>)
    ELSE IF txOk < 9
    THEN DutyOut(mem, c, <<CMD_READ_SCRATCHPAD, page>>, PageBytes(mem, page * 8, 8),
                 <<"recv_ok", "recv_ok", "send_ok", "send_fail">>, <<>>)
    ELSE DutyOut(mem, c, <<CMD_READ_SCRATCHPAD, page>>,
                 Append(PageBytes(mem, page * 8, 8), c[0]),
                 <<"recv_ok", "recv_ok", "send_ok", "send_ok">>, <<>>)

\* Read Page that sends the checksum byte although the block send failed
ReadScratchpadIgnoresFailure(mem, c, page, txOk) ==
    IF txOk < 8
    THEN DutyOut(mem, c, <<CMD_READ_SCRATCHPAD, page>>,
                 Append(SubSeq(PageBytes(mem, page * 8, 8), 1, txOk), c[page]),
                 <<"recv_ok", "recv_ok", "send_fail", "send_ok">>, <<>>)
    ELSE IF txOk < 9
    THEN DutyOut(mem, c, <<CMD_READ_SCRATCHPAD, page>>, PageBytes(mem, page * 8, 8),
                 <<"recv_ok", "recv_ok", "send_ok", "send_fail">>, <<>>)
    ELSE DutyOut(mem, c, <<CMD_READ_SCRATCHPAD, page>>,
                 Append(PageBytes(mem, page * 8, 8), c[page]),
                 <<"recv_ok", "recv_ok", "send_ok", "send_ok">>, <<>>)

\* case 0xBE from hub->send(&memory[page * 8], 8) on
ReadScratchpad(mem, c, page, txOk) ==
    IF txOk < 8
    THEN \* the block send fails after txOk bytes: return
         DutyOut(mem, c, <<CMD_READ_SCRATCHPAD, page>>,
                 SubSeq(PageBytes(mem, page * 8, 8), 1, txOk),
                 <<"recv_ok", "recv_ok", "send_fail">>, <<>>)
    ELSE IF txOk < 9
    THEN \* hub->send(crc[page]) fails: return
         DutyOut(mem, c, <<CMD_READ_SCRATCHPAD, page>>, PageBytes(mem, page * 8, 8),
                 <<"recv_ok", "recv_ok", "send_ok", "send_fail">>, <<>>)
    ELSE DutyOut(mem, c, <<CMD_READ_SCRATCHPAD, page>>,
                 Append(PageBytes(mem, page * 8, 8), c[page]),
                 <<"recv_ok", "recv_ok", "send_ok", "send_ok">>, <<>>)

\* the receive loop of case 0x4E: for (nByte = page<<3; nByte < (page+1)<<3; ++nByte)
\* rx[pos] is the next byte the master delivers
RECURSIVE WriteLoop(_, _, _, _, _, _)
WriteLoop(mem, nByte, endByte, rx, pos, calls) ==
    IF nByte >= endByte
    THEN [memory |-> mem, pos |-> pos, calls |-> calls]
    ELSE IF pos > Len(rx)
    THEN \* Data sending finished: break
         [memory |-> mem, pos |-> pos, calls |-> Append(calls, "recv_fail")]
    ELSE WriteLoop(IF ReadOnly(nByte) THEN mem ELSE [mem EXCEPT ![nByte] = rx[pos]],
                   nByte + 1, endByte, rx, pos + 1, Append(calls, "recv_ok"))

\* Write Page whose receive loop runs one byte past the end of the page
WriteScratchpadNineBytes(mem, c, page, rx) ==
    LET w == WriteLoop(mem, U8(page * 8), (page + 1) * 8, rx, 3, <<"recv_ok", "recv_ok">>)
        m == IF w.pos <= Len(rx) /\ (page + 1) * 8 < MEM_SIZE
             THEN [w.memory EXCEPT ![(page + 1) * 8] = rx[w.pos]]
             ELSE w.memory
    IN  DutyOut(m, CalcCRC(m, c, page), SubSeq(rx, 1, w.pos - 1), <<>>, w.calls, <<>>)

\* Write Page that leaves the page checksum as it was
WriteScratchpadStaleCrc(mem, c, page, rx) ==
    LET w == WriteLoop(mem, U8(page * 8), (page + 1) * 8, rx, 3, <<"recv_ok", "recv_ok">>)
    IN  DutyOut(w.memory, c, SubSeq(rx, 1, w.pos - 1), <<>>, w.calls, <<>>)

\* case 0x4E from the receive loop on: the loop, then calcCRC(page)
WriteScratchpad(mem, c, page, rx) ==
    LET w == WriteLoop(mem, U8(page * 8), (page + 1) * 8, rx, 3, <<"recv_ok", "recv_ok">>)
    IN  DutyOut(w.memory, CalcCRC(w.memory, c, page), SubSeq(rx, 1, w.pos - 1),
                <<>>, w.calls, <<>>)

\* Convert T that raises the temperature busy flag
ConvertTBusy(mem, c) ==
    LET m == [mem EXCEPT ![0] = BitOr(mem[0], REG0_MASK_TB)]
    IN  DutyOut(m, CalcCRC(m, c, 0), <<CMD_CONVERT_T>>, <<>>, <<"recv_ok">>, <<>>)

\* case 0x44: calcCRC(0)
ConvertT(mem, c) ==
    DutyOut(mem, CalcCRC(mem, c, 0), <<CMD_CONVERT_T>>, <<>>, <<"recv_ok">>, <<>>)

\* case 0xB4: updateVoltage(0); calcCRC(0)
ConvertV(mem, c, vad, vdd) ==
    LET m == UpdateVoltage(mem, vad, vdd, 0)
    IN  DutyOut(m, CalcCRC(m, c, 0), <<CMD_CONVERT_V>>, <<>>, <<"recv_ok">>, <<>>)

\* an unknown command dropped without raiseSlaveError
SlaveErrorDropped(mem, c, cmd) ==
    DutyOut(mem, c, <<cmd>>, <<>>, <<"recv_ok">>, <<>>)

\* default: hub->raiseSlaveError(cmd)
SlaveError(mem, c, cmd) ==
    DutyOut(mem, c, <<cmd>>, <<>>, <<"recv_ok">>, <<cmd>>)

\* void duty(OneWireHub * hub)
DutyRun(mem, c, vad, vdd, rx, txOk) ==
    IF Len(rx) < 1
    THEN \* if (hub->recv(&cmd, 1)) return;
         DutyOut(mem, c, <<>>, <<>>, <<"recv_fail">>, <<>>)
    ELSE LET cmd == rx[1] IN
    CASE cmd = CMD_READ_SCRATCHPAD ->
            IF Len(rx) < 2 THEN PageRecvFailed(mem, c, cmd)
            ELSE IF PageRejected(rx[2]) THEN PageAbort(mem, c, cmd, rx[2])
            ELSE ReadScratchpad(mem, c, rx[2], txOk)
      [] cmd = CMD_WRITE_SCRATCHPAD ->
            IF Len(rx) < 2 THEN PageRecvFailed(mem, c, cmd)
            ELSE IF PageRejected(rx[2]) THEN PageAbort(mem, c, cmd, rx[2])
            ELSE WriteScratchpad(mem, c, rx[2], rx)
      [] cmd = CMD_COPY_SCRATCHPAD ->
            IF Len(rx) < 2 THEN PageRecvFailed(mem, c, cmd)
            ELSE IF PageRejected(rx[2]) THEN PageAbort(mem, c, cmd, rx[2])
            ELSE DutyOut(mem, c, <<cmd, rx[2]>>, <<>>, <<"recv_ok", "recv_ok">>, <<>>)
      [] cmd = CMD_RECALL_MEMORY ->
            IF Len(rx) < 2 THEN PageRecvFailed(mem, c, cmd)
            ELSE IF PageRejected(rx[2]) THEN PageAbort(mem, c, cmd, rx[2])
            ELSE DutyOut(mem, c, <<cmd, rx[2]>>, <<>>, <<"recv_ok", "recv_ok">>, <<>>)
      [] cmd = CMD_CONVERT_T -> ConvertT(mem, c)
      [] cmd = CMD_CONVERT_V -> ConvertV(mem, c, vad, vdd)
      [] OTHER -> SlaveError(mem, c, cmd)

(* ---------------------------------------------------------------------- *)
(* Public memory accessors and value encoders                              *)
(* ---------------------------------------------------------------------- *)
\* the copy length clamped one byte short of the end of the store
CopyLengthShort(length, position) ==
    IF position + length >= MEM_SIZE THEN MEM_SIZE - position - 1 ELSE length

\* _length = (position + length >= MEM_SIZE) ? (MEM_SIZE - position) : length
CopyLength(length, position) ==
    IF position + length >= MEM_SIZE THEN MEM_SIZE - position ELSE length

\* memcpy(&memory[position], source, n): source is indexed from 1
MemCopyIn(mem, source, n, position) ==
    [i \in 0..(MEM_SIZE - 1) |->
        IF i >= position /\ i < position + n THEN source[i - position + 1] ELSE mem[i]]

\* writeMemory that recomputes the checksum of the first written page only
WriteMemoryRunFirstPage(mem, c, source, length, position) ==
    IF position >= MEM_SIZE
    THEN [memory |-> mem, crc |-> c, ret |-> FALSE]
    ELSE LET m == MemCopyIn(mem, source, CopyLength(length, position), position)
         IN  [memory |-> m, crc |-> CalcCRC(m, c, U8(position \div 8)), ret |-> TRUE]

\* bool writeMemory(source, length, position)
WriteMemoryRun(mem, c, source, length, position) ==
    IF position >= MEM_SIZE
    THEN [memory |-> mem, crc |-> c, ret |-> FALSE]
    ELSE LET m          == MemCopyIn(mem, source, CopyLength(length, position), position)
             page_start == U8(position \div 8)
             page_end   == U8((position + length) \div 8)
         IN  [memory |-> m, crc |-> CalcCRCRange(m, c, page_start, page_end), ret |-> TRUE]

\* readMemory reporting failure when the read ends exactly at the last byte
ReadMemoryRunStrict(mem, length, position) ==
    IF position >= MEM_SIZE
    THEN [out |-> <<>>, ret |-> FALSE]
    ELSE LET n == CopyLength(length, position)
         IN  [out |-> PageBytes(mem, position, n), ret |-> (position + length < MEM_SIZE)]

\* bool readMemory(destination, length, position) const
ReadMemoryRun(mem, length, position) ==
    IF position >= MEM_SIZE
    THEN [out |-> <<>>, ret |-> FALSE]
    ELSE LET n == CopyLength(length, position)
         IN  [out |-> PageBytes(mem, position, n), ret |-> (n = length)]

\* static_cast<int16_t>(temp_degC * 256.0) for temp_degC = t1k / 1024: the
\* product truncated toward zero; a product outside int16_t has no defined
\* conversion and ub is the value the build then produces
TempFixed(t1k, ub) ==
    LET q == IF t1k >= 0 THEN t1k \div 4 ELSE -((-t1k) \div 4)
    IN  IF q >= -32768 /\ q <= 32767 THEN q ELSE ub

\* void setTemperature(float temp_degC), the memory it leaves
SetTemperatureFloatMem(mem, t1k, ub) ==
    LET v0    == TempFixed(t1k, ub)
        v1    == IF v0 > 125 * 256 THEN 125 * 256 ELSE v0
        value == IF v1 < -55 * 256 THEN -55 * 256 ELSE v1
    IN  [mem EXCEPT ![1] = U8(BitAnd(U16(value), 248)),
                    ![2] = U8(value \div 256)]

\* void setTemperature(int8_t temp_degC), the memory it leaves
SetTemperatureIntMem(mem, temp_degC) ==
    LET v1    == IF temp_degC > 125 THEN 125 ELSE temp_degC
        value == IF v1 < -55 THEN -55 ELSE v1
    IN  [mem EXCEPT ![1] = 0, ![2] = U8(value)]

\* getTemperature rounding to the nearest degree with the fractional byte
GetTemperatureRounded(mem) == S8(U8(mem[2] + (IF mem[1] >= 128 THEN 1 ELSE 0)))

\* int8_t getTemperature() const
GetTemperature(mem) == S8(mem[2])

\* the staged pair with the high byte masked to one bit
StagedPairOneBit(voltage_10mV) ==
    [i \in 0..1 |-> IF i = 0 THEN U8(BitAnd(voltage_10mV, 255))
                    ELSE U8(BitAnd(voltage_10mV \div 256, 1))]

\* setVADVoltage / setVDDVoltage(uint16_t voltage_10mV): the staged pair
StagedPair(voltage_10mV) ==
    [i \in 0..1 |-> IF i = 0 THEN U8(BitAnd(voltage_10mV, 255))
                    ELSE U8(BitAnd(voltage_10mV \div 256, 3))]

\* getVADVoltage / getVDDVoltage: (pair[1] << 8) | pair[0] as uint16_t
StagedValue(pair) == U16(BitOr(pair[1] * 256, pair[0]))

\* setCurrent without the sign extension of the upper six bits
SetCurrentMemUnsigned(mem, value) ==
    LET lo == U8(BitAnd(U16(value), 255))
        hi == U8(BitAnd(U16(value \div 256), 3))
    IN  [mem EXCEPT ![5] = lo, ![6] = hi]

\* void setCurrent(int16_t value), the memory it leaves
SetCurrentMem(mem, value) ==
    LET lo == U8(BitAnd(U16(value), 255))
        hi == U8(BitAnd(U16(value \div 256), 3))
    IN  [mem EXCEPT ![5] = lo,
                    ![6] = IF value < 0 THEN BitOr(hi, 252) ELSE hi]

\* int16_t getCurrent() const
GetCurrent(mem) == S16(BitOr(mem[6] * 256, mem[5]))

(* ---------------------------------------------------------------------- *)
(* Bounds and the inputs the environment chooses from                      *)
(* ---------------------------------------------------------------------- *)
MaxOps == 2       \* operations per behaviour
MaxData == 9      \* data bytes a master offers after the page index
MaxTx == 9        \* bytes the transport accepts in the longest transaction

\* what the members the constructor leaves uninitialised may hold:
\* vadVoltage, vddVoltage and crc[PAGE_COUNT]
Uninitialised ==
    { [vad |-> <<52, 2>>,    vdd |-> <<205, 1>>, crcTop |-> 90],
      [vad |-> <<255, 255>>, vdd |-> <<0, 0>>,   crcTop |-> 0] }

Pair(sq) == [i \in 0..1 |-> sq[i + 1]]

\* k data bytes, all different, starting with first
Data(first, k) == [i \in 1..k |-> U8(first + 37 * (i - 1))]

Pages == {0, 1, 7, 8, 255}
PageCmds == {CMD_READ_SCRATCHPAD, CMD_WRITE_SCRATCHPAD, CMD_COPY_SCRATCHPAD, CMD_RECALL_MEMORY}
PlainCmds == {CMD_CONVERT_T, CMD_CONVERT_V, 0, 255}
TxBudgets == {3, 8, MaxTx}

\* Write Page attempts <<page, first data byte, number of data bytes>>
WriteAttempts ==
    {<<p, 15, k>> : p \in {0, 7}, k \in 0..MaxData}
    \cup {<<p, 240, k>> : p \in {0, 1, 7}, k \in {1, 8}}
    \cup {<<p, 15, MaxData>> : p \in {8, 255}}

\* the transactions a master may attempt: <<rx, txOk>>
BusInputs ==
    {<< <<>>, MaxTx >>}
    \cup {<< <<c>>, MaxTx >> : c \in PageCmds}
    \cup {<< <<c>> \o Data(15, 2), MaxTx >> : c \in PlainCmds}
    \cup {<< <<c, p>> \o Data(15, MaxData), MaxTx >> :
              c \in {CMD_COPY_SCRATCHPAD, CMD_RECALL_MEMORY}, p \in Pages}
    \cup {<< <<CMD_READ_SCRATCHPAD, p>> \o Data(15, MaxData), t >> :
              p \in Pages, t \in TxBudgets}
    \cup {<< <<CMD_WRITE_SCRATCHPAD, w[1]>> \o Data(w[2], w[3]), MaxTx >> : w \in WriteAttempts}

\* a smaller choice of transactions, for the specification of the whole device
FewBusInputs ==
    {<< <<>>, MaxTx >>}
    \cup {<< <<c>> \o Data(15, 2), MaxTx >> : c \in PlainCmds}
    \cup {<< <<c, p>> \o Data(15, MaxData), MaxTx >> :
              c \in {CMD_COPY_SCRATCHPAD, CMD_RECALL_MEMORY}, p \in {7, 8}}
    \cup {<< <<CMD_READ_SCRATCHPAD, p>> \o Data(15, MaxData), t >> :
              p \in {0, 8}, t \in {3, MaxTx}}
    \cup {<< <<CMD_WRITE_SCRATCHPAD, p>> \o Data(f, k), MaxTx >> :
              p \in {0, 7}, f \in {15, 240}, k \in {3, MaxData}}

VoltInputs == {679, 1023, 1024}

\* the device on its own, owned by no sketch
ErasedEeprom == [k \in 0..6 |-> 255]

NeverWritten == [k \in 0..6 |-> -1]

ZeroAddr == [k \in 0..6 |-> 0]

NoSketch ==
    /\ eeprom = ErasedEeprom
    /\ addr = ZeroAddr
    /\ ID = <<>>
    /\ ma_total = 0
    /\ ma_output = 0
    /\ ma_init = FALSE
    /\ pc = "none"
    /\ slot = 1
    /\ boots = 0
    /\ reads = 0
    /\ mq135 = 0
    /\ written = NeverWritten

(* ---------------------------------------------------------------------- *)
(* Initial state: DS2438New::DS2438New() runs clearMemory()                *)
(* ---------------------------------------------------------------------- *)
InitWith(args) ==
    \E u \in Uninitialised :
        /\ memory = ClearedMemory
        /\ crc = ClearedCrc([i \in 0..PAGE_COUNT |-> u.crcTop])
        /\ vadVoltage = Pair(u.vad)
        /\ vddVoltage = Pair(u.vdd)
        /\ last = Obs("construct", <<>>, <<>>, <<>>, <<>>, <<>>, TRUE, <<>>)
        /\ nops = 0
        /\ arg \in args
        /\ NoSketch

Init == InitWith({0})

(* ---------------------------------------------------------------------- *)
(* Operations                                                              *)
(* ---------------------------------------------------------------------- *)
DutyOn(inputs) ==
    /\ nops < MaxOps
    /\ \E in \in inputs :
         \E r \in {DutyRun(memory, crc, vadVoltage, vddVoltage, in[1], in[2])} :
             /\ memory' = r.memory
             /\ crc' = r.crc
             /\ last' = Obs("duty", <<Len(in[1]), in[2]>>, r.rxd, r.sent, r.calls, r.errs,
                            TRUE, <<>>)
    /\ nops' = nops + 1
    /\ UNCHANGED <<vadVoltage, vddVoltage, arg, sketch>>

ClearMemory ==
    /\ nops < MaxOps
    /\ memory' = ClearedMemory
    /\ crc' = ClearedCrc(crc)
    /\ last' = Obs("clearMemory", <<>>, <<>>, <<>>, <<>>, <<>>, TRUE, <<>>)
    /\ nops' = nops + 1
    /\ UNCHANGED <<vadVoltage, vddVoltage, arg, sketch>>

\* setVADVoltage that also stores the value in the voltage register
SetVADVoltageWriteThrough(v) ==
    /\ nops < MaxOps
    /\ vadVoltage' = StagedPair(v)
    /\ \E m \in {[memory EXCEPT ![3] = StagedPair(v)[0], ![4] = StagedPair(v)[1]]} :
         /\ memory' = m
         /\ crc' = CalcCRC(m, crc, 0)
    /\ last' = Obs("setVADVoltage", <<v>>, <<>>, <<>>, <<>>, <<>>, TRUE, <<>>)
    /\ nops' = nops + 1
    /\ UNCHANGED <<vddVoltage, arg, sketch>>

SetVADVoltage(v) ==
    /\ nops < MaxOps
    /\ vadVoltage' = StagedPair(v)
    /\ last' = Obs("setVADVoltage", <<v>>, <<>>, <<>>, <<>>, <<>>, TRUE, <<>>)
    /\ nops' = nops + 1
    /\ UNCHANGED <<memory, crc, vddVoltage, arg, sketch>>

SetVDDVoltage(v) ==
    /\ nops < MaxOps
    /\ vddVoltage' = StagedPair(v)
    /\ last' = Obs("setVDDVoltage", <<v>>, <<>>, <<>>, <<>>, <<>>, TRUE, <<>>)
    /\ nops' = nops + 1
    /\ UNCHANGED <<memory, crc, vadVoltage, arg, sketch>>

\* writeMemory(source, length, position) with source = Data(first, length)
WriteMemory(first, length, position) ==
    /\ nops < MaxOps
    /\ \E r \in {WriteMemoryRun(memory, crc, Data(first, length), length, position)} :
         /\ memory' = r.memory
         /\ crc' = r.crc
         /\ last' = Obs("writeMemory", <<first, length, position>>, <<>>, <<>>, <<>>, <<>>,
                        r.ret, <<>>)
    /\ nops' = nops + 1
    /\ UNCHANGED <<vadVoltage, vddVoltage, arg, sketch>>

ReadMemory(length, position) ==
    /\ nops < MaxOps
    /\ \E r \in {ReadMemoryRun(memory, length, position)} :
         last' = Obs("readMemory", <<length, position>>, <<>>, <<>>, <<>>, <<>>, r.ret, r.out)
    /\ nops' = nops + 1
    /\ UNCHANGED <<memory, crc, vadVoltage, vddVoltage, arg, sketch>>

\* setTemperature(float) with temp_degC = t1k / 1024
SetTemperatureFloat(t1k, ub) ==
    /\ nops < MaxOps
    /\ \E m \in {SetTemperatureFloatMem(memory, t1k, ub)} :
         /\ memory' = m
         /\ crc' = CalcCRC(m, crc, 0)
    /\ last' = Obs("setTemperatureFloat", <<t1k>>, <<>>, <<>>, <<>>, <<>>, TRUE, <<>>)
    /\ nops' = nops + 1
    /\ UNCHANGED <<vadVoltage, vddVoltage, arg, sketch>>

SetTemperatureInt(t) ==
    /\ nops < MaxOps
    /\ \E m \in {SetTemperatureIntMem(memory, t)} :
         /\ memory' = m
         /\ crc' = CalcCRC(m, crc, 0)
    /\ last' = Obs("setTemperatureInt", <<t>>, <<>>, <<>>, <<>>, <<>>, TRUE, <<>>)
    /\ nops' = nops + 1
    /\ UNCHANGED <<vadVoltage, vddVoltage, arg, sketch>>

SetCurrent(value) ==
    /\ nops < MaxOps
    /\ \E m \in {SetCurrentMem(memory, value)} :
         /\ memory' = m
         /\ crc' = CalcCRC(m, crc, 0)
    /\ last' = Obs("setCurrent", <<value>>, <<>>, <<>>, <<>>, <<>>, TRUE, <<>>)
    /\ nops' = nops + 1
    /\ UNCHANGED <<vadVoltage, vddVoltage, arg, sketch>>

\* inputs of the public operations
MemLengths == {0, 3, 9, 255}
MemPositions == {0, 6, 56, 62, 64}
TempFloats == {24064, -10547, 204800, -61440}   \* 23.5, -10.3, 200, -60 degC
TempUB == {0, 32767, -32768, -14336}
TempInts == {23, -128, 127}
Currents == {-1, 300, -1024}

NextBus ==
    \/ DutyOn(BusInputs)
    \/ \E v \in VoltInputs : SetVADVoltage(v)
    \/ \E v \in VoltInputs : SetVDDVoltage(v)

SpecBus == Init /\ [][NextBus]_vars

Next ==
    \/ DutyOn(FewBusInputs)
    \/ ClearMemory
    \/ \E f \in {240}, n \in MemLengths, p \in MemPositions : WriteMemory(f, n, p)
    \/ \E n \in {3, 255}, p \in {6, 62, 64} : ReadMemory(n, p)
    \/ \E t \in TempFloats, ub \in TempUB : SetTemperatureFloat(t, ub)
    \/ \E t \in TempInts : SetTemperatureInt(t)
    \/ \E c \in Currents : SetCurrent(c)
    \/ \E v \in {679} : SetVADVoltage(v)
    \/ \E v \in {1023} : SetVDDVoltage(v)

Spec == Init /\ [][Next]_vars

\* every command byte in turn: arg is the command byte of the transactions
CmdInputs(cmd) ==
    {<< <<cmd>> \o Data(7, k), t >> : k \in {0, 1, 4}, t \in {3, MaxTx}}

NextCmd == DutyOn(CmdInputs(arg))

SpecCmd == InitWith(0..255) /\ [][NextCmd]_vars

(* ---------------------------------------------------------------------- *)
(* Properties                                                              *)
(* ---------------------------------------------------------------------- *)
Recognised ==
    {CMD_READ_SCRATCHPAD, CMD_WRITE_SCRATCHPAD, CMD_COPY_SCRATCHPAD,
     CMD_RECALL_MEMORY, CMD_CONVERT_T, CMD_CONVERT_V}

\* the stored checksum of page p is the crc8 of the page's current bytes
CrcMatches(mem, c, p) == c[p] = crc8(mem, p * 8, 8)

\* no transport call of the transaction failed
NoFailure(calls) == \A i \in 1..Len(calls) : calls[i] \in {"recv_ok", "send_ok"}

\* the step leaves registers, checksums and staged voltages as they were
DeviceUnchanged == UNCHANGED <<memory, crc, vadVoltage, vddVoltage>>

\* C1: after construction and after every completed operation, for every
\* page p in 0..7 the stored checksum crc[p] equals crc8 of the 8 bytes
\* currently held in page p.
C1_ChecksumsMatch == \A p \in 0..(PAGE_COUNT - 1) : CrcMatches(memory, crc, p)

\* a write that straddles pages 0 and 1 has completed and changed both
C1_Witness ==
    /\ last.op = "writeMemory"
    /\ last.args = <<240, 3, 6>>
    /\ memory[7] = 21
    /\ memory[8] = 58
    /\ nops = 2

\* C2: a Read Page transaction with page index p < 8 and no transport
\* failure sends exactly 9 bytes, the 8 current bytes of page p in offset
\* order and then crc8 of those bytes; when the send of the 8 data bytes
\* fails the checksum byte is not sent; the transaction changes no register
\* byte, checksum or staged voltage.
C2_ReadPage ==
    [][ (/\ last'.op = "duty"
         /\ Len(last'.rxd) = 2
         /\ last'.rxd[1] = CMD_READ_SCRATCHPAD
         /\ last'.rxd[2] < 8)
        => LET p == last'.rxd[2] IN
           /\ DeviceUnchanged
           /\ NoFailure(last'.calls) =>
                /\ Len(last'.sent) = 9
                /\ \A i \in 1..8 : last'.sent[i] = memory[p * 8 + i - 1]
                /\ last'.sent[9] = crc8(memory, p * 8, 8)
           /\ (Len(last'.calls) >= 3 /\ last'.calls[3] = "send_fail") =>
                /\ Len(last'.calls) = 3
                /\ Len(last'.sent) < 8
                /\ \A i \in 1..Len(last'.sent) : last'.sent[i] = memory[p * 8 + i - 1]
      ]_vars

\* page 7 was written and is then read back in full
C2_Witness ==
    /\ last.op = "duty"
    /\ last.rxd = <<CMD_READ_SCRATCHPAD, 7>>
    /\ Len(last.sent) = 9
    /\ memory[56] = 15
    /\ last.sent[1] = 15

\* C3: for Read Page, Write Page, Copy Page and Recall Page, a received page
\* index >= 8 ends the transaction with no byte sent, no further byte
\* received, no protocol-error signal and every register byte, checksum and
\* staged voltage unchanged.
C3_PageOutOfRange ==
    [][ (/\ last'.op = "duty"
         /\ Len(last'.rxd) >= 2
         /\ last'.rxd[1] \in {CMD_READ_SCRATCHPAD, CMD_WRITE_SCRATCHPAD,
                              CMD_COPY_SCRATCHPAD, CMD_RECALL_MEMORY}
         /\ last'.rxd[2] >= 8)
        => /\ last'.sent = <<>>
           /\ Len(last'.rxd) = 2
           /\ last'.calls = <<"recv_ok", "recv_ok">>
           /\ last'.errs = <<>>
           /\ DeviceUnchanged
      ]_vars

\* a Write Page to page 8 was attempted with data bytes on offer
C3_Witness ==
    /\ last.op = "duty"
    /\ last.rxd = <<CMD_WRITE_SCRATCHPAD, 8>>
    /\ last.args[1] > 2

\* C4: for every command byte other than the six recognised ones the
\* dispatcher raises exactly one protocol-error signal carrying that byte,
\* sends and receives nothing further and leaves registers, checksums and
\* staged voltages unchanged; for the six recognised bytes no error signal
\* is raised.
C4_UnknownCommand ==
    [][ (last'.op = "duty" /\ Len(last'.rxd) >= 1)
        => IF last'.rxd[1] \in Recognised
           THEN last'.errs = <<>>
           ELSE /\ last'.errs = <<last'.rxd[1]>>
                /\ last'.rxd = <<last'.rxd[1]>>
                /\ last'.calls = <<"recv_ok">>
                /\ last'.sent = <<>>
                /\ DeviceUnchanged
      ]_vars

\* the unknown command 0xBF arrived with more bytes on offer
C4_Witness ==
    /\ last.op = "duty"
    /\ arg = 191
    /\ last.errs = <<191>>
    /\ last.args[1] > 1

\* the voltage encoders on every value: arg is the value handed to the setters
MaxVolt == 1030

NextVolt ==
    \/ SetVADVoltage(arg)
    \/ SetVDDVoltage(arg)

SpecVolt == InitWith(0..MaxVolt) /\ [][NextVolt]_vars

\* the step is a Write Page transaction whose page index was accepted
WritePageStep ==
    /\ last'.op = "duty"
    /\ Len(last'.rxd) >= 2
    /\ last'.rxd[1] = CMD_WRITE_SCRATCHPAD
    /\ last'.rxd[2] < 8

\* C5: in a Write Page to page 0 the bytes received for offsets 1..6 are
\* discarded and those register bytes keep their values, the bytes received
\* for offsets 0 and 7 are stored; in a Write Page to a page 1..7 every
\* received byte is stored at its offset.
C5_WriteProtection ==
    [][ WritePageStep
        => LET p == last'.rxd[2]
               k == Len(last'.rxd) - 2
           IN  /\ p = 0 =>
                    /\ \A i \in 1..6 : memory'[i] = memory[i]
                    /\ \A i \in {0, 7} : i < k => memory'[i] = last'.rxd[3 + i]
               /\ p # 0 =>
                    \A i \in 0..7 : i < k => memory'[p * 8 + i] = last'.rxd[3 + i]
      ]_vars

\* eight bytes were written to page 0: offsets 0 and 7 took them, offset 1 did not
C5_Witness ==
    /\ last.op = "duty"
    /\ Len(last.rxd) = 10
    /\ last.rxd[1] = CMD_WRITE_SCRATCHPAD
    /\ last.rxd[2] = 0
    /\ memory[0] = last.rxd[3]
    /\ memory[7] = last.rxd[10]
    /\ memory[7] # MemDS2438[7]
    /\ memory[1] # last.rxd[4]

\* C6: in a Write Page to an in-range page p where the transport delivers k
\* data bytes and then no more (0 <= k <= 8), byte i < k is stored at offset
\* i if that offset is writable, every offset >= k keeps its value, at most
\* 8 data bytes are consumed, the checksum of page p matches the resulting
\* bytes, and no error signal is raised.
C6_ShortWrite ==
    [][ WritePageStep
        => LET p       == last'.rxd[2]
               k       == Len(last'.rxd) - 2
               offered == last'.args[1] - 2
           IN  /\ k = IF offered < 8 THEN offered ELSE 8
               /\ \A i \in 0..7 :
                    /\ (i < k /\ ~(p = 0 /\ i >= 1 /\ i <= 6)) =>
                           memory'[p * 8 + i] = last'.rxd[3 + i]
                    /\ i >= k => memory'[p * 8 + i] = memory[p * 8 + i]
               /\ CrcMatches(memory', crc', p)
               /\ last'.errs = <<>>
      ]_vars

\* the transport stopped after 3 data bytes of a Write Page to page 7
C6_Witness ==
    /\ last.op = "duty"
    /\ last.rxd = <<CMD_WRITE_SCRATCHPAD, 7, 15, 52, 89>>
    /\ last.calls[Len(last.calls)] = "recv_fail"
    /\ memory[58] = 89
    /\ memory[59] = 0

\* C7: a Convert Voltage transaction copies into page 0 bytes 3 and 4 the
\* staged VDD pair when bit 3 of page 0 byte 0 is set and the staged VAD pair
\* when it is clear, leaves every other register byte and both staged pairs
\* unchanged, transfers no bytes and leaves the page 0 checksum matching.
C7_ConvertVoltage ==
    [][ (last'.op = "duty" /\ last'.rxd = <<CMD_CONVERT_V>>)
        => LET sel == IF (memory[0] \div 8) % 2 = 1 THEN vddVoltage ELSE vadVoltage
           IN  /\ memory' = [memory EXCEPT ![3] = sel[0], ![4] = sel[1]]
               /\ UNCHANGED <<vadVoltage, vddVoltage>>
               /\ last'.sent = <<>>
               /\ last'.calls = <<"recv_ok">>
               /\ CrcMatches(memory', crc', 0)
      ]_vars

\* a Write Page set the channel-select bit and the convert latched VDD
C7_Witness ==
    /\ last.op = "duty"
    /\ last.rxd = <<CMD_CONVERT_V>>
    /\ (memory[0] \div 8) % 2 = 1
    /\ vddVoltage # vadVoltage
    /\ memory[3] = vddVoltage[0]
    /\ memory[4] = vddVoltage[1]

\* C8: once a transport call of a transaction fails the dispatcher makes no
\* further transport call and raises no error signal; the register bytes
\* then differ from their values before the transaction only by Write Page
\* data bytes received before the failure; and a transaction that follows an
\* aborted one is processed afresh (a Read Page answers with the page and
\* its checksum, an unknown command is signalled).
C8_AbortedTransaction ==
    [][ /\ (last'.op = "duty" /\ ~NoFailure(last'.calls)) =>
              /\ NoFailure(SubSeq(last'.calls, 1, Len(last'.calls) - 1))
              /\ last'.errs = <<>>
              /\ UNCHANGED <<vadVoltage, vddVoltage>>
              /\ IF WritePageStep
                 THEN LET p == last'.rxd[2]
                          k == Len(last'.rxd) - 2
                      IN  \A j \in 0..(MEM_SIZE - 1) :
                              memory'[j] # memory[j] =>
                                  /\ j >= p * 8
                                  /\ j < p * 8 + k
                                  /\ memory'[j] = last'.rxd[3 + j - p * 8]
                 ELSE UNCHANGED <<memory, crc>>
        /\ (last.op = "duty" /\ ~NoFailure(last.calls) /\ last'.op = "duty"
               /\ last'.args[1] > 0) =>
              /\ last'.rxd[1] \notin Recognised => last'.errs = <<last'.rxd[1]>>
              /\ (/\ last'.rxd[1] = CMD_READ_SCRATCHPAD
                  /\ Len(last'.rxd) = 2
                  /\ last'.rxd[2] < 8
                  /\ last'.args[2] >= 9) =>
                     /\ Len(last'.sent) = 9
                     /\ \A i \in 1..8 : last'.sent[i] = memory'[last'.rxd[2] * 8 + i - 1]
                     /\ last'.sent[9] = crc8(memory', last'.rxd[2] * 8, 8)
      ]_vars

\* a Read Page of a page changed by a cut-short Write Page lost its checksum byte
C8_Witness ==
    /\ last.op = "duty"
    /\ last.rxd = <<CMD_READ_SCRATCHPAD, 7>>
    /\ last.calls = <<"recv_ok", "recv_ok", "send_ok", "send_fail">>
    /\ Len(last.sent) = 8
    /\ memory[56] = 15
    /\ memory[61] = 0

\* C9: after clearMemory(), whatever preceded it, all 64 register bytes equal
\* the template except page 0 byte 0, which has bits 0x01 and 0x02 set and
\* bits 0x08, 0x10, 0x20, 0x40 clear, every page checksum matches its page,
\* and registers and checksums are those of a newly constructed device.
C9_ClearMemory ==
    last.op = "clearMemory" =>
        /\ \A i \in 1..(MEM_SIZE - 1) : memory[i] = MemDS2438Rows[i + 1]
        /\ memory[0] % 2 = 1
        /\ (memory[0] \div 2) % 2 = 1
        /\ (memory[0] \div 8) % 2 = 0
        /\ (memory[0] \div 16) % 8 = 0
        /\ memory[0] = 3
        /\ \A p \in 0..(PAGE_COUNT - 1) : CrcMatches(memory, crc, p)
        /\ \A p \in 0..(PAGE_COUNT - 1) : crc[p] = <<74, 223, 98, 0, 0, 0, 0, 0>>[p + 1]

\* clearMemory() ran as the second operation
C9_Witness ==
    /\ last.op = "clearMemory"
    /\ nops = 2

\* C10: for each voltage channel and every v in 0..1023 the getter of the
\* channel returns v after its setter was called with v, and setting one
\* channel does not change what the other channel's getter returns.
C10_VoltageRoundTrip ==
    [][ /\ last'.op = "setVADVoltage" =>
              /\ arg <= 1023 => StagedValue(vadVoltage') = arg
              /\ StagedValue(vddVoltage') = StagedValue(vddVoltage)
        /\ last'.op = "setVDDVoltage" =>
              /\ arg <= 1023 => StagedValue(vddVoltage') = arg
              /\ StagedValue(vadVoltage') = StagedValue(vadVoltage)
      ]_vars

\* both channels were set to 1023, VDD last
C10_Witness ==
    /\ last.op = "setVDDVoltage"
    /\ arg = 1023
    /\ last.args = <<1023>>
    /\ StagedValue(vddVoltage) = 1023
    /\ StagedValue(vadVoltage) = 1023

\* the current encoder on every value: arg is the value handed to setCurrent
MaxCur == 1030

NextCur ==
    \/ SetCurrent(arg)
    \/ \E v \in {679} : SetVADVoltage(v)

SpecCur == InitWith((-MaxCur)..MaxCur) /\ [][NextCur]_vars

\* C11: for every c in -1024..1023, after setCurrent(c) getCurrent()
\* returns c, page 0 byte 6 has its upper six bits all set when c is
\* negative and all clear when c is not, byte 5 holds the low 8 bits of c,
\* and the checksum of page 0 matches.
C11_CurrentRoundTrip ==
    [][ (last'.op = "setCurrent" /\ arg >= -1024 /\ arg <= 1023)
        => /\ GetCurrent(memory') = arg
           /\ memory'[6] \div 4 = (IF arg < 0 THEN 63 ELSE 0)
           /\ memory'[5] = arg % 256
           /\ CrcMatches(memory', crc', 0)
      ]_vars

\* setCurrent(-1024) ran: byte 5 is 0x00 and byte 6 is 0xFC
C11_Witness ==
    /\ last.op = "setCurrent"
    /\ last.args = <<-1024>>
    /\ arg = -1024
    /\ memory[5] = 0
    /\ memory[6] = 252
    /\ GetCurrent(memory) = -1024

\* what the float setter is to store for temp_degC = t1k / 1024: the input
\* clamped to -55..125 degC, times 256, truncated toward zero, as 16 bits
\* with the three lowest bits cleared
ClampedFixed(t1k) ==
    LET c == IF t1k > 125 * 1024 THEN 125 * 1024
             ELSE IF t1k < -55 * 1024 THEN -55 * 1024 ELSE t1k
        q == IF c >= 0 THEN c \div 4 ELSE -((-c) \div 4)
    IN  U16(q) - (U16(q) % 8)

\* C12: setTemperature(float t) stores, for every t (also t > 125, t < -55
\* and t whose product with 256 does not fit int16_t), the fixed-point value
\* of t clamped to -55..125 degC in bytes 2:1 of page 0, low 3 bits cleared.
C12_FloatTemperature ==
    [][ last'.op = "setTemperatureFloat"
        => memory'[2] * 256 + memory'[1] = ClampedFixed(last'.args[1])
      ]_vars

\* the integer temperature setter on every int8_t value: arg is its argument
NextTemp ==
    \/ SetTemperatureInt(arg)
    \/ \E t \in TempFloats, ub \in TempUB : SetTemperatureFloat(t, ub)

SpecTemp == InitWith(-128..127) /\ [][NextTemp]_vars

\* temp_degC * 256 for temp_degC = t1k / 1024 fits int16_t
ProductFits(t1k) == t1k > -131076 /\ t1k < 131072

\* C13: getTemperature() returns page 0 byte 2 as a signed 8-bit value:
\* after setTemperature(int8_t t), t in -128..127, it returns t clamped to
\* -55..125 and byte 1 is 0; after setTemperature(float) it returns the
\* whole-degree high byte of the stored fixed-point value (23 for 23.5),
\* whatever the fractional byte holds.
C13_GetTemperature ==
    [][ /\ last'.op = "setTemperatureInt" =>
              /\ GetTemperature(memory') =
                     (IF arg > 125 THEN 125 ELSE IF arg < -55 THEN -55 ELSE arg)
              /\ memory'[1] = 0
        /\ (last'.op = "setTemperatureFloat" /\ ProductFits(last'.args[1])) =>
              /\ GetTemperature(memory') = S16(ClampedFixed(last'.args[1])) \div 256
              /\ last'.args[1] = 24064 => GetTemperature(memory') = 23
        /\ last'.op \in {"setTemperatureInt", "setTemperatureFloat"} =>
              \A b \in {0, 128, 248} :
                  GetTemperature([memory' EXCEPT ![1] = b]) = GetTemperature(memory')
      ]_vars

\* setTemperature(23.5) ran as the second operation: the getter returns 23
\* while the fractional byte holds one half
C13_Witness ==
    /\ last.op = "setTemperatureFloat"
    /\ last.args = <<24064>>
    /\ arg = -128
    /\ nops = 2
    /\ memory[1] = 128
    /\ GetTemperature(memory) = 23

\* the memory accessors at every position: arg is the position argument
\* lengths that stay inside the store, end exactly at its last byte, and
\* run past it
LengthsAt(position) ==
    {0, 9, 255}
    \cup (IF position < MEM_SIZE THEN {MEM_SIZE - position} ELSE {})
    \cup (IF position <= MEM_SIZE THEN {MEM_SIZE + 1 - position} ELSE {})

NextMem ==
    \/ \E n \in LengthsAt(arg) : WriteMemory(240, n, arg)
    \/ \E n \in LengthsAt(arg) : ReadMemory(n, arg)

SpecMem == InitWith(0..255) /\ [][NextMem]_vars

\* the smaller of two numbers
Min(a, b) == IF a < b THEN a ELSE b

\* C14: writeMemory(source, length, position) returns false and changes
\* nothing when position >= 64; otherwise it returns true, copies exactly
\* min(length, 64 - position) bytes from source to offset position, writes
\* no byte at or beyond offset 64, leaves every other byte unchanged, and
\* afterwards the checksum of every page holding a written byte matches.
C14_WriteMemory ==
    [][ last'.op = "writeMemory"
        => LET first    == last'.args[1]
               length   == last'.args[2]
               position == last'.args[3]
               k        == Min(length, MEM_SIZE - position)
           IN  /\ position >= MEM_SIZE => (last'.ret = FALSE /\ DeviceUnchanged)
               /\ position < MEM_SIZE =>
                    /\ last'.ret = TRUE
                    /\ DOMAIN memory' = 0..(MEM_SIZE - 1)
                    /\ position + k <= MEM_SIZE
                    /\ \A i \in 0..(MEM_SIZE - 1) :
                         memory'[i] = IF i >= position /\ i < position + k
                                      THEN Data(first, length)[i - position + 1]
                                      ELSE memory[i]
                    /\ \A i \in position..(position + k - 1) :
                         CrcMatches(memory', crc', i \div 8)
                    /\ UNCHANGED <<vadVoltage, vddVoltage>>
      ]_vars

\* a write of 255 bytes at offset 62 copied two bytes and returned true
C14_Witness ==
    /\ last.op = "writeMemory"
    /\ last.args = <<240, 255, 62>>
    /\ last.ret = TRUE
    /\ memory[61] = 0
    /\ memory[62] = 240
    /\ memory[63] = 21

\* C15: readMemory(destination, length, position) returns true exactly when
\* position < 64 and position + length <= 64; with position >= 64 it copies
\* nothing and returns false; with position < 64 and position + length > 64
\* it copies the 64 - position available bytes and returns false; it never
\* changes device state.
C15_ReadMemory ==
    [][ last'.op = "readMemory"
        => LET length   == last'.args[1]
               position == last'.args[2]
           IN  /\ DeviceUnchanged
               /\ last'.ret = (position < MEM_SIZE /\ position + length <= MEM_SIZE)
               /\ position >= MEM_SIZE => last'.out = <<>>
               /\ position < MEM_SIZE =>
                    /\ Len(last'.out) = Min(length, MEM_SIZE - position)
                    /\ \A i \in 1..Len(last'.out) : last'.out[i] = memory[position + i - 1]
      ]_vars

\* after a write, a read of 2 bytes at offset 62 ended exactly at the last
\* byte of the store and returned true
C15_Witness ==
    /\ last.op = "readMemory"
    /\ last.args = <<2, 62>>
    /\ last.ret = TRUE
    /\ last.out = <<240, 21>>

\* C16: a Copy Page or Recall Page transaction with a page index below 8 and
\* a Convert Temperature transaction send no byte, raise no error and leave
\* every register byte, every page checksum and both staged voltages as they
\* were; Convert Temperature receives no byte after the command byte.
C16_NoEffectCommands ==
    [][ /\ (/\ last'.op = "duty"
            /\ Len(last'.rxd) = 2
            /\ last'.rxd[1] \in {CMD_COPY_SCRATCHPAD, CMD_RECALL_MEMORY}
            /\ last'.rxd[2] < PAGE_COUNT)
           => /\ last'.sent = <<>>
              /\ last'.errs = <<>>
              /\ last'.calls = <<"recv_ok", "recv_ok">>
              /\ DeviceUnchanged
        /\ (/\ last'.op = "duty"
            /\ Len(last'.rxd) >= 1
            /\ last'.rxd[1] = CMD_CONVERT_T)
           => /\ last'.sent = <<>>
              /\ last'.errs = <<>>
              /\ last'.rxd = <<CMD_CONVERT_T>>
              /\ last'.calls = <<"recv_ok">>
              /\ DeviceUnchanged
      ]_vars

\* Convert Temperature ran after a Write Page had changed page 0
C16_Witness ==
    /\ last.op = "duty"
    /\ last.rxd = <<CMD_CONVERT_T>>
    /\ last.args[1] = 3
    /\ nops = 2
    /\ memory[7] = 18
    /\ memory[0] = 15

\* the staged pair Convert V latches: the channel the AD flag selects
SelectedPair == IF BitAnd(memory[0], REG0_MASK_AD) # 0 THEN vddVoltage ELSE vadVoltage

\* the step is a Read Page transaction of page 0 that sent all nine bytes
ReadPage0Step ==
    /\ last'.op = "duty"
    /\ last'.rxd = <<CMD_READ_SCRATCHPAD, 0>>
    /\ Len(last'.sent) = 9

\* C17: a staged voltage is not visible until a conversion latches it:
\* setVADVoltage and setVDDVoltage change no register byte and no checksum,
\* a Read Page 0 after a setter and before any Convert Voltage returns the
\* bytes 3..4 the registers held before the setter, and after a Convert
\* Voltage Read Page 0 returns in bytes 3..4 the value most recently staged
\* for the channel the channel-select flag selects.
C17_StagedUntilConvert ==
    [][ /\ last'.op \in {"setVADVoltage", "setVDDVoltage"} => UNCHANGED <<memory, crc>>
        /\ ReadPage0Step =>
              /\ last'.sent[4] = memory[3]
              /\ last'.sent[5] = memory[4]
              /\ UNCHANGED <<memory, crc>>
        /\ (ReadPage0Step /\ last.op = "duty" /\ last.rxd = <<CMD_CONVERT_V>>) =>
              /\ last'.sent[4] = SelectedPair[0]
              /\ last'.sent[5] = SelectedPair[1]
        /\ (last'.op = "duty" /\ last'.rxd = <<CMD_CONVERT_V>>) =>
              /\ memory'[3] = SelectedPair[0]
              /\ memory'[4] = SelectedPair[1]
              /\ (last.op = "setVADVoltage" /\ BitAnd(memory[0], REG0_MASK_AD) = 0) =>
                    memory'[4] * 256 + memory'[3] = last.args[1] % 1024
              /\ (last.op = "setVDDVoltage" /\ BitAnd(memory[0], REG0_MASK_AD) # 0) =>
                    memory'[4] * 256 + memory'[3] = last.args[1] % 1024
      ]_vars

\* setVADVoltage(679) and then Read Page 0: the value is staged and the
\* master still reads the register bytes of the newly constructed device
C17_Witness ==
    /\ last.op = "duty"
    /\ last.rxd = <<CMD_READ_SCRATCHPAD, 0>>
    /\ Len(last.sent) = 9
    /\ StagedValue(vadVoltage) = 679
    /\ last.sent[4] = 172
    /\ last.sent[5] = 0
    /\ nops = 2

(* ---------------------------------------------------------------------- *)
(* The sketch: setup() and loop() of the moving-average version            *)
(* ---------------------------------------------------------------------- *)
SENTINEL == 35        \* '#'
MA_READINGS == 48
family_code == 38     \* 0x26

MaxBoots == 2     \* power cycles per behaviour
MaxLoops == 2     \* loop() iterations per power-up

\* int arithmetic of the target: 16 bits
IntWrap(x) == S16(x)

\* a / b of two ints, b > 0: the quotient truncated toward zero
IntDiv(a, b) == IF a >= 0 THEN a \div b ELSE -((-a) \div b)

\* what TrueRandom.random(256) may return
RandomBytes == {17, 200}

\* what analogRead(PIN_A_MQ135) may return
AnalogInputs == {0, 512, 1023}

\* EEPROM contents at the first power-up: erased, or holding an address
\* stored earlier
EepromContents ==
    {ErasedEeprom, [k \in 0..6 |-> IF k = 0 THEN SENTINEL ELSE 10 + k]}

\* ds2438 is a null pointer until setup() creates the object
NullMemory == [k \in 0..(MEM_SIZE - 1) |-> 0]

NullCrc == [k \in 0..PAGE_COUNT |-> 0]

NullPair == [k \in 0..1 |-> 0]

InitSketch ==
    /\ memory = NullMemory
    /\ crc = NullCrc
    /\ vadVoltage = NullPair
    /\ vddVoltage = NullPair
    /\ last = Obs("reset", <<>>, <<>>, <<>>, <<>>, <<>>, TRUE, <<>>)
    /\ nops = 0
    /\ arg = 0
    /\ eeprom \in EepromContents
    /\ addr = ZeroAddr
    /\ ID = <<>>
    /\ ma_total = 0
    /\ ma_output = 0
    /\ ma_init = FALSE
    /\ pc = "reset"
    /\ slot = 1
    /\ boots = 0
    /\ reads = 0
    /\ mq135 = 0
    /\ written = NeverWritten

\* setup() without  ds2438->setCurrent(0)
SetupDeviceNoCurrent(u) ==
    LET m0 == ClearedMemory
        c0 == ClearedCrc([k \in 0..PAGE_COUNT |-> u.crcTop])
        m2 == SetTemperatureIntMem(m0, 0)
    IN  [memory |-> m2, crc |-> CalcCRC(m2, c0, 0),
         vad |-> Pair(u.vad), vdd |-> StagedPair(0)]

\* new DS2438New(...); setCurrent(0); setVDDVoltage(0); setTemperature((int8_t) 0):
\* the device these calls leave, u being what the constructor does not initialise
SetupDevice(u) ==
    LET m0 == ClearedMemory
        c0 == ClearedCrc([k \in 0..PAGE_COUNT |-> u.crcTop])
        m1 == SetCurrentMem(m0, 0)
        c1 == CalcCRC(m1, c0, 0)
        m2 == SetTemperatureIntMem(m1, 0)
    IN  [memory |-> m2, crc |-> CalcCRC(m2, c1, 0),
         vad |-> Pair(u.vad), vdd |-> StagedPair(0)]

\* the second half of setup(): the device is created with address a and attached
Construct(a) ==
    /\ \E u \in Uninitialised :
         \E d \in {SetupDevice(u)} :
             /\ memory' = d.memory
             /\ crc' = d.crc
             /\ vadVoltage' = d.vad
             /\ vddVoltage' = d.vdd
    /\ ID' = <<family_code, a[1], a[2], a[3], a[4], a[5], a[6]>>
    /\ last' = Obs("setup", <<>>, <<>>, <<>>, <<>>, <<>>, TRUE, <<>>)
    /\ nops' = 0
    /\ pc' = "loop"

\* setup() reading the address from EEPROM slots 0..5
SetupFromEEPROMShifted ==
    /\ pc = "reset"
    /\ eeprom[0] = SENTINEL
    /\ \E a \in {[k \in 0..6 |-> IF k = 0 THEN addr[0] ELSE eeprom[k - 1]]} :
         /\ addr' = a
         /\ Construct(a)
    /\ UNCHANGED <<arg, eeprom, ma_total, ma_output, ma_init, slot, boots, reads,
                   mq135, written>>

\* setup() when EEPROM.read(0) == '#': addr[1..6] = EEPROM.read(1..6)
SetupFromEEPROM ==
    /\ pc = "reset"
    /\ eeprom[0] = SENTINEL
    /\ \E a \in {[k \in 0..6 |-> IF k = 0 THEN addr[0] ELSE eeprom[k]]} :
         /\ addr' = a
         /\ Construct(a)
    /\ UNCHANGED <<arg, eeprom, ma_total, ma_output, ma_init, slot, boots, reads,
                   mq135, written>>

\* the generation loop with the sentinel written along with the first byte
SetupGenerateByteSentinelFirst(r) ==
    /\ \/ pc = "reset" /\ eeprom[0] # SENTINEL
       \/ pc = "generate"
    /\ slot < 7
    /\ addr' = [addr EXCEPT ![slot] = r]
    /\ eeprom' = [eeprom EXCEPT ![slot] = r, ![0] = SENTINEL]
    /\ written' = [written EXCEPT ![slot] = boots, ![0] = boots]
    /\ slot' = slot + 1
    /\ pc' = "generate"
    /\ UNCHANGED <<memory, crc, vadVoltage, vddVoltage, last, nops, arg,
                   ID, ma_total, ma_output, ma_init, boots, reads, mq135>>

\* one pass of the generation loop: addr[i] = random; EEPROM.write(i, addr[i])
SetupGenerateByte(r) ==
    /\ \/ pc = "reset" /\ eeprom[0] # SENTINEL
       \/ pc = "generate"
    /\ slot < 7
    /\ addr' = [addr EXCEPT ![slot] = r]
    /\ eeprom' = [eeprom EXCEPT ![slot] = r]
    /\ written' = [written EXCEPT ![slot] = boots]
    /\ slot' = slot + 1
    /\ pc' = "generate"
    /\ UNCHANGED <<memory, crc, vadVoltage, vddVoltage, last, nops, arg,
                   ID, ma_total, ma_output, ma_init, boots, reads, mq135>>

\* after the generation loop: EEPROM.write(0, '#'), then the device is created
SetupWriteSentinel ==
    /\ pc = "generate"
    /\ slot = 7
    /\ eeprom' = [eeprom EXCEPT ![0] = SENTINEL]
    /\ written' = [written EXCEPT ![0] = boots]
    /\ Construct(addr)
    /\ UNCHANGED <<arg, addr, ma_total, ma_output, ma_init, slot, boots, reads, mq135>>

\* power is lost and returns: RAM starts over, the EEPROM keeps its cells
PowerCycle ==
    /\ boots < MaxBoots
    /\ pc \in {"generate", "loop"}
    /\ boots' = boots + 1
    /\ memory' = NullMemory
    /\ crc' = NullCrc
    /\ vadVoltage' = NullPair
    /\ vddVoltage' = NullPair
    /\ last' = Obs("reset", <<>>, <<>>, <<>>, <<>>, <<>>, TRUE, <<>>)
    /\ nops' = 0
    /\ addr' = ZeroAddr
    /\ ID' = <<>>
    /\ ma_total' = 0
    /\ ma_output' = 0
    /\ ma_init' = FALSE
    /\ pc' = "reset"
    /\ slot' = 1
    /\ reads' = 0
    /\ mq135' = 0
    /\ UNCHANGED <<arg, eeprom, written>>

\* loop() up to the polling: the reading mq135, the moving average and
\* setVADVoltage(ma_output); last keeps the most recent bus transaction
Loop(reading) ==
    /\ pc = "loop"
    /\ reads < MaxLoops
    /\ mq135' = reading
    /\ IF ~ma_init
       THEN /\ ma_output' = reading
            /\ ma_total' = IntWrap(reading * MA_READINGS)
            /\ ma_init' = TRUE
       ELSE \E t \in {IntWrap(IntWrap(ma_total - ma_output) + reading)} :
               /\ ma_total' = t
               /\ ma_output' = IntDiv(t, MA_READINGS)
               /\ ma_init' = ma_init
    /\ vadVoltage' = StagedPair(U16(ma_output'))
    /\ reads' = reads + 1
    /\ nops' = 0
    /\ UNCHANGED <<memory, crc, vddVoltage, last, arg, eeprom, addr, ID, pc,
                   slot, boots, written>>

\* hub.poll() inside loop(): the device serves one transaction
Poll(inputs) ==
    /\ pc = "loop"
    /\ reads > 0
    /\ DutyOn(inputs)

\* the transactions a master attempts against the running sketch
SketchBusInputs ==
    {<< <<CMD_WRITE_SCRATCHPAD, 0>> \o Data(f, 8), MaxTx >> : f \in {15, 240}}
    \cup {<< <<c>>, MaxTx >> : c \in {CMD_CONVERT_V, CMD_CONVERT_T}}
    \cup {<< <<CMD_READ_SCRATCHPAD, 0>>, MaxTx >>}

NextSketch ==
    \/ SetupFromEEPROM
    \/ \E r \in {90} : SetupGenerateByte(r)
    \/ SetupWriteSentinel
    \/ \E a \in AnalogInputs : Loop(a)
    \/ Poll(SketchBusInputs)

SpecSketch == InitSketch /\ [][NextSketch]_vars

\* startup, power loss and restart, with a little bus traffic
NextBoot ==
    \/ SetupFromEEPROM
    \/ \E r \in RandomBytes : SetupGenerateByte(r)
    \/ SetupWriteSentinel
    \/ PowerCycle
    \/ \E a \in {512} : Loop(a)
    \/ Poll({<< <<CMD_WRITE_SCRATCHPAD, 0>> \o Data(15, 8), MaxTx >>})

SpecBoot == InitSketch /\ [][NextBoot]_vars

\* the address held in EEPROM slots 1..6, as a device ID
StoredID(e) == <<family_code, e[1], e[2], e[3], e[4], e[5], e[6]>>

\* C18: a startup that finds the sentinel constructs the device with the six
\* stored address bytes and writes nothing; one that does not find it
\* generates six bytes, writes them to slots 1..6 with the sentinel and uses
\* them as the address; so once a startup has completed every later startup
\* uses the same six bytes, and no transaction or setter changes the identity.
C18_PersistedIdentity ==
    [][ /\ (pc = "reset" /\ eeprom[0] = SENTINEL) =>
              /\ eeprom' = eeprom
              /\ pc' = "loop"
              /\ ID' = StoredID(eeprom)
        /\ (pc = "reset" /\ eeprom[0] # SENTINEL) => pc' = "generate"
        /\ (pc = "generate" /\ pc' = "loop") =>
              /\ \A k \in 1..6 : addr[k] \in RandomBytes /\ eeprom'[k] = addr[k]
              /\ eeprom'[0] = SENTINEL
              /\ ID' = StoredID(eeprom')
        /\ pc' = "loop" => (eeprom'[0] = SENTINEL /\ ID' = StoredID(eeprom'))
        /\ eeprom[0] = SENTINEL => eeprom' = eeprom
        /\ (pc = "loop" /\ pc' = "loop") => ID' = ID
      ]_vars

\* an address was generated and stored, power was lost, and the next
\* startup constructed the device with the stored address
C18_Witness ==
    /\ pc = "loop"
    /\ boots = 1
    /\ eeprom = [k \in 0..6 |-> IF k = 0 THEN SENTINEL ELSE IF k % 2 = 1 THEN 17 ELSE 200]
    /\ ID = <<family_code, 17, 200, 17, 200, 17, 200>>
    /\ slot = 1
    /\ last.op = "duty"

\* C19: the current (Vsens) measurement is always 0: once setup() has run,
\* whatever the sensor readings and bus transactions, Write Page to page 0
\* included, page 0 bytes 5 and 6 are 0 and every Read Page 0 response
\* carries a current of 0.
C19_CurrentAlwaysZero ==
    pc = "loop" =>
        /\ memory[5] = 0
        /\ memory[6] = 0
        /\ GetCurrent(memory) = 0
        /\ (/\ last.op = "duty"
            /\ last.rxd = <<CMD_READ_SCRATCHPAD, 0>>
            /\ Len(last.sent) >= 7) => (last.sent[6] = 0 /\ last.sent[7] = 0)

\* Read Page 0 after a Write Page had offered non-zero bytes for offsets 5, 6
C19_Witness ==
    /\ pc = "loop"
    /\ last.op = "duty"
    /\ last.rxd = <<CMD_READ_SCRATCHPAD, 0>>
    /\ Len(last.sent) = 9
    /\ memory[7] = 18
    /\ last.sent[8] = 18
    /\ last.sent[6] = 0

\* C20: in the moving-average sketch the DS2438 returns the analog
\* measurement in VDD: once loop() has taken a reading, a Convert Voltage
\* with the channel-select flag set to VDD followed by Read Page 0 returns
\* in bytes 3..4 the value derived from the analog reading.
C20_AnalogInVDD ==
    [][ (/\ pc = "loop"
         /\ reads > 0
         /\ last.op = "duty"
         /\ last.rxd = <<CMD_CONVERT_V>>
         /\ BitAnd(memory[0], REG0_MASK_AD) # 0
         /\ ReadPage0Step)
        => /\ last'.sent[4] = StagedPair(U16(ma_output))[0]
           /\ last'.sent[5] = StagedPair(U16(ma_output))[1]
      ]_vars

\* the larger of two numbers
Max(a, b) == IF a > b THEN a ELSE b

\* the step is loop() taking a reading
LoopStep == pc = "loop" /\ reads' = reads + 1

\* C21: the caller never hands the voltage encoder an out-of-domain value:
\* for readings in 0..1023 the first reading makes ma_output that reading,
\* every later iteration leaves ma_output = ma_total / 48, the value passed
\* to setVADVoltage lies in 0..1023, between the readings seen so far, and
\* getVADVoltage returns it, with ma_total and ma_output 16-bit ints.
C21_AverageInDomain ==
    [][ LoopStep
        => /\ ~ma_init => ma_output' = mq135'
           /\ ma_init =>
                 /\ ma_output' = IntDiv(ma_total', MA_READINGS)
                 /\ ma_output' >= Min(ma_output, mq135')
                 /\ ma_output' <= Max(ma_output, mq135')
           /\ ma_output' \in 0..1023
           /\ StagedValue(vadVoltage') = ma_output'
      ]_vars

\* C22: no bus transaction changes the measurement registers on its own:
\* page 0 bytes 1..2 and 5..6 keep what setTemperature, setCurrent or
\* clearMemory stored, so getTemperature and getCurrent are unaffected, and
\* page 0 bytes 3..4 change in a Convert Voltage transaction only and then
\* equal one of the two staged pairs.
C22_BusKeepsMeasurements ==
    [][ last'.op = "duty"
        => /\ \A k \in {1, 2, 5, 6} : memory'[k] = memory[k]
           /\ GetTemperature(memory') = GetTemperature(memory)
           /\ GetCurrent(memory') = GetCurrent(memory)
           /\ (memory'[3] # memory[3] \/ memory'[4] # memory[4]) =>
                 /\ last'.rxd = <<CMD_CONVERT_V>>
                 /\ \/ (memory'[3] = vadVoltage[0] /\ memory'[4] = vadVoltage[1])
                    \/ (memory'[3] = vddVoltage[0] /\ memory'[4] = vddVoltage[1])
      ]_vars

\* setCurrent(300), then a Write Page to page 0 that delivered all 8 bytes
C22_Witness ==
    /\ last.op = "duty"
    /\ Len(last.rxd) = 10
    /\ last.rxd[1] = CMD_WRITE_SCRATCHPAD
    /\ last.rxd[8] # 0
    /\ memory[7] = last.rxd[10]
    /\ GetCurrent(memory) = 300
    /\ nops = 2

\* C23: a Write Page transaction to page p changes nothing outside page p:
\* the 8 bytes and the checksum of every other page and both staged pairs
\* are unchanged and nothing is sent; a following Read Page p returns, for
\* each writable offset that received a byte, the byte that was written.
C23_WritePageFrame ==
    [][ /\ WritePageStep =>
              LET p == last'.rxd[2] IN
              /\ \A q \in 0..(PAGE_COUNT - 1) :
                    q # p => /\ \A k \in 0..7 : memory'[q * 8 + k] = memory[q * 8 + k]
                             /\ crc'[q] = crc[q]
              /\ UNCHANGED <<vadVoltage, vddVoltage>>
              /\ last'.sent = <<>>
        /\ (/\ last.op = "duty"
            /\ Len(last.rxd) >= 2
            /\ last.rxd[1] = CMD_WRITE_SCRATCHPAD
            /\ last.rxd[2] < 8
            /\ last'.op = "duty"
            /\ last'.rxd = <<CMD_READ_SCRATCHPAD, last.rxd[2]>>)
           => \A k \in 0..7 :
                 (/\ k + 3 <= Len(last.rxd)
                  /\ ~ReadOnly(last.rxd[2] * 8 + k)
                  /\ k + 1 <= Len(last'.sent)) => last'.sent[k + 1] = last.rxd[k + 3]
      ]_vars

\* Write Page 0 delivered 8 bytes and the following Read Page 0 returned the
\* written bytes at offsets 0 and 7 and the kept register byte at offset 3
C23_Witness ==
    /\ last.op = "duty"
    /\ last.rxd = <<CMD_READ_SCRATCHPAD, 0>>
    /\ Len(last.sent) = 9
    /\ last.sent[1] = 15
    /\ last.sent[8] = 18
    /\ last.sent[4] = 172
    /\ nops = 2

\* C24: during address generation the sentinel is written only after all
\* six address bytes, so however often startup is interrupted and
\* restarted, a startup that finds the sentinel reads six address bytes
\* that were all written by one and the same generation run.
C24_SentinelLast ==
    [][ /\ eeprom'[0] # eeprom[0] =>
              /\ eeprom'[0] = SENTINEL
              /\ slot = 7
              /\ \A k \in 1..6 : written[k] = boots /\ eeprom[k] = addr[k]
        /\ eeprom'[0] = SENTINEL => \A k \in 1..6 : written'[k] = written'[0]
        /\ (pc = "reset" /\ eeprom[0] = SENTINEL) =>
              /\ \A k \in 1..6 : addr'[k] = eeprom[k] /\ written[k] = written[0]
              /\ UNCHANGED <<eeprom, written>>
      ]_vars

\* the first generation run was interrupted, the second ran to completion,
\* and after another power cycle the startup read the six bytes of the
\* second run
C24_Witness ==
    /\ pc = "loop"
    /\ boots = 2
    /\ slot = 1
    /\ eeprom[0] = SENTINEL
    /\ \A k \in 0..6 : written[k] = 1
    /\ \A k \in 1..6 : addr[k] = eeprom[k]

====
